---- MODULE Spec2Model ----
(***************************************************************************)
(* Gasteiger-Marsili partial charges: GasteigerSolver::compute_charges,    *)
(* guess_hybridization and the parameter table get_params.                 *)
(*                                                                         *)
(* Arithmetic.  The code works in f64.  Here a charge is an integer number *)
(* of thousandths (SCALE = 1.0), a table coefficient an integer number of  *)
(* hundredths (as the table prints them), an electronegativity an integer  *)
(* number of thousandths and the damping factor an integer number of       *)
(* 1/ONE.  Every product and quotient is rounded (floor) where the code    *)
(* rounds to f64; sums are exact.  Atom indices in bonds are 0-based as in *)
(* the code; TLA+ sequences are 1-based, so atom i lives at position i+1.  *)
(***************************************************************************)
EXTENDS Integers, Sequences, FiniteSets

VARIABLES
    atoms,          \* &[A]: sequence of [atomic_number, formal_charge]
    bonds,          \* &[B]: sequence of <<i, j>> (atom_indices, 0-based)
    iterations,     \* self.iterations
    damping,        \* self.damping, in 1/ONE
    charges,        \* charges: Vec<f64>
    hybrids,        \* the value of `hybrid` computed for each atom
    neighbor_counts,\* the value of neighbor_count reached for each atom
    atom_params,    \* atom_params: Vec<Option<GasteigerParams>>
    current_damping,\* current_damping, in 1/ONE
    delta_charges,  \* delta_charges of the running pass
    pass,           \* number of completed passes of `for _ in 0..iterations`
    bond_idx,       \* position of `for bond in bonds` in the running pass
    pc              \* position in compute_charges

vars == <<atoms, bonds, iterations, damping, charges, hybrids, neighbor_counts,
          atom_params, current_damping, delta_charges, pass, bond_idx, pc>>

inputs == <<atoms, bonds, iterations, damping>>

----------------------------------------------------------------------------
(* Fixed-point units *)

\* the f64 value 1.0 of a charge (calculate_electronegativity(p, 1.0))
SCALE == 1000

\* the f64 value 1.0 of current_damping
ONE == 4096

\* table coefficients are written with two decimals
PARAM_SCALE == 100

----------------------------------------------------------------------------
(* parameters.rs *)

Hybridization == {"Sp3", "Sp2", "Sp", "Default"}

None == [some |-> FALSE, a |-> 0, b |-> 0, c |-> 0]

Some(a, b, c) == [some |-> TRUE, a |-> a, b |-> b, c |-> c]

\* a plausible slip: a digit too many in hydrogen's a (17.17 for 7.17)
get_params_hydrogen_typo(atomic_number, hybridization) ==
    CASE atomic_number = 1 -> Some(1717, 624, -56)
      [] atomic_number = 6 /\ hybridization = "Sp3" -> Some(798, 918, 188)
      [] atomic_number = 6 /\ hybridization = "Sp2" -> Some(879, 932, 151)
      [] atomic_number = 6 /\ hybridization = "Sp"  -> Some(1039, 945, 73)
      [] atomic_number = 7 /\ hybridization = "Sp3" -> Some(1154, 1082, 136)
      [] atomic_number = 7 /\ hybridization = "Sp2" -> Some(1287, 1115, 85)
      [] atomic_number = 7 /\ hybridization = "Sp"  -> Some(1568, 1170, -27)
      [] atomic_number = 8 /\ hybridization = "Sp3" -> Some(1412, 1292, 139)
      [] atomic_number = 8 /\ hybridization = "Sp2" -> Some(1707, 1379, 47)
      [] atomic_number = 9  -> Some(1466, 1385, 231)
      [] atomic_number = 17 -> Some(1018, 938, 113)
      [] atomic_number = 35 -> Some(990, 829, 101)
      [] atomic_number = 53 -> Some(885, 717, 99)
      [] atomic_number = 15 -> Some(890, 812, 31)
      [] atomic_number = 16 /\ hybridization = "Sp3" -> Some(1014, 913, 138)
      [] atomic_number = 16 /\ hybridization = "Sp2" -> Some(1088, 947, 133)
      [] OTHER -> None

get_params(atomic_number, hybridization) ==
    CASE atomic_number = 1 -> Some(717, 624, -56)
      [] atomic_number = 6 /\ hybridization = "Sp3" -> Some(798, 918, 188)
      [] atomic_number = 6 /\ hybridization = "Sp2" -> Some(879, 932, 151)
      [] atomic_number = 6 /\ hybridization = "Sp"  -> Some(1039, 945, 73)
      [] atomic_number = 7 /\ hybridization = "Sp3" -> Some(1154, 1082, 136)
      [] atomic_number = 7 /\ hybridization = "Sp2" -> Some(1287, 1115, 85)
      [] atomic_number = 7 /\ hybridization = "Sp"  -> Some(1568, 1170, -27)
      [] atomic_number = 8 /\ hybridization = "Sp3" -> Some(1412, 1292, 139)
      [] atomic_number = 8 /\ hybridization = "Sp2" -> Some(1707, 1379, 47)
      [] atomic_number = 9  -> Some(1466, 1385, 231)
      [] atomic_number = 17 -> Some(1018, 938, 113)
      [] atomic_number = 35 -> Some(990, 829, 101)
      [] atomic_number = 53 -> Some(885, 717, 99)
      [] atomic_number = 15 -> Some(890, 812, 31)
      [] atomic_number = 16 /\ hybridization = "Sp3" -> Some(1014, 913, 138)
      [] atomic_number = 16 /\ hybridization = "Sp2" -> Some(1088, 947, 133)
      [] OTHER -> None

----------------------------------------------------------------------------
(* solver.rs: helpers *)

\* Option::or_else
or_else(x, y) == IF x.some THEN x ELSE y

\* p.a + p.b * q + p.c * q * q, each product rounded as it is formed
calculate_electronegativity(p, q) ==
    p.a * (SCALE \div PARAM_SCALE)
        + ((p.b * q) \div PARAM_SCALE)
        + ((((p.c * q) \div PARAM_SCALE) * q) \div SCALE)

\* a plausible slip: each endpoint tested on its own (a self-loop counts twice)
RECURSIVE neighbor_count_per_endpoint(_, _)
neighbor_count_per_endpoint(atom_idx, bs) ==
    IF bs = <<>> THEN 0
    ELSE neighbor_count_per_endpoint(atom_idx, Tail(bs))
            + (IF Head(bs)[1] = atom_idx THEN 1 ELSE 0)
            + (IF Head(bs)[2] = atom_idx THEN 1 ELSE 0)

\* the loop of guess_hybridization: `if i == atom_idx || j == atom_idx { += 1 }`
RECURSIVE neighbor_count(_, _)
neighbor_count(atom_idx, bs) ==
    IF bs = <<>> THEN 0
    ELSE neighbor_count(atom_idx, Tail(bs))
            + (IF Head(bs)[1] = atom_idx \/ Head(bs)[2] = atom_idx THEN 1 ELSE 0)

\* a plausible slip: oxygen's and sulfur's band starts at 3 instead of 2
hybridization_of_shifted(atomic_number, count) ==
    CASE atomic_number = 6 ->
            IF count >= 4 THEN "Sp3"
            ELSE IF count = 3 THEN "Sp2"
            ELSE IF count <= 2 THEN "Sp"
            ELSE "Sp3"
      [] atomic_number = 7 ->
            IF count >= 3 THEN "Sp3"
            ELSE IF count = 2 THEN "Sp2"
            ELSE "Sp"
      [] atomic_number = 8 -> IF count >= 3 THEN "Sp3" ELSE "Sp2"
      [] atomic_number = 15 -> "Sp3"
      [] atomic_number = 16 -> IF count >= 3 THEN "Sp3" ELSE "Sp2"
      [] OTHER -> "Default"

\* the match of guess_hybridization
hybridization_of(atomic_number, count) ==
    CASE atomic_number = 6 ->
            IF count >= 4 THEN "Sp3"
            ELSE IF count = 3 THEN "Sp2"
            ELSE IF count <= 2 THEN "Sp"
            ELSE "Sp3"
      [] atomic_number = 7 ->
            IF count >= 3 THEN "Sp3"
            ELSE IF count = 2 THEN "Sp2"
            ELSE "Sp"
      [] atomic_number = 8 -> IF count >= 2 THEN "Sp3" ELSE "Sp2"
      [] atomic_number = 15 -> "Sp3"
      [] atomic_number = 16 -> IF count >= 2 THEN "Sp3" ELSE "Sp2"
      [] OTHER -> "Default"

guess_hybridization(atom_idx, as, bs) ==
    hybridization_of(as[atom_idx + 1].atomic_number, neighbor_count(atom_idx, bs))

\* a plausible slip: the chain starts at Sp3 and never tries the estimate
resolve_params_sp3_first(atomic_number, hybrid) ==
    or_else(get_params(atomic_number, "Sp3"),
            get_params(atomic_number, "Default"))

\* a plausible slip: an unparameterized element falls back to the hydrogen row
resolve_params_fallback_h(atomic_number, hybrid) ==
    or_else(or_else(or_else(get_params(atomic_number, hybrid),
                            get_params(atomic_number, "Sp3")),
                    get_params(atomic_number, "Default")),
            get_params(1, "Default"))

\* get_params(z, hybrid).or_else(get_params(z, Sp3)).or_else(get_params(z, Default))
resolve_params(atomic_number, hybrid) ==
    or_else(or_else(get_params(atomic_number, hybrid),
                    get_params(atomic_number, "Sp3")),
            get_params(atomic_number, "Default"))

Zeros(n) == [k \in 1..n |-> 0]

\* a plausible slip: the denominator is the acceptor's chi_plus
transfer_dq_acceptor(cd, chi_low, chi_high, chi_plus_donor, chi_plus_acceptor) ==
    (((cd * (chi_high - chi_low)) \div ONE) * SCALE) \div chi_plus_acceptor

\* dq = current_damping * (chi_high - chi_low) / chi_plus(donor)
transfer_dq(cd, chi_low, chi_high, chi_plus_donor, chi_plus_acceptor) ==
    (((cd * (chi_high - chi_low)) \div ONE) * SCALE) \div chi_plus_donor

\* a plausible slip: the loss is booked on atom 0 instead of the acceptor
apply_transfer_from_first(delta, donor, acceptor, dq) ==
    [[delta EXCEPT ![donor + 1] = @ + dq] EXCEPT ![1] = @ - dq]

\* a plausible slip: the gain of the donor is not taken from the acceptor
apply_transfer_one_sided(delta, donor, acceptor, dq) ==
    [delta EXCEPT ![donor + 1] = @ + dq]

\* delta_charges[donor] += dq; delta_charges[acceptor] -= dq
apply_transfer(delta, donor, acceptor, dq) ==
    [[delta EXCEPT ![donor + 1] = @ + dq] EXCEPT ![acceptor + 1] = @ - dq]

\* a plausible slip: the charge read is the one already moved by earlier bonds
charge_seen_running(ch, delta, i) == ch[i + 1] + delta[i + 1]

\* charges[i] as read in the bond loop: the vector as it stood before the pass
charge_seen(ch, delta, i) == ch[i + 1]

\* the body of `for bond in bonds`: the delta vector after the bond
bond_step(ch, delta, params, bond, cd) ==
    LET i == bond[1]
        j == bond[2]
        n_atoms == Len(ch)
    IN  IF i >= n_atoms \/ j >= n_atoms THEN delta
        ELSE IF ~(params[i + 1].some /\ params[j + 1].some) THEN delta
        ELSE LET p_i == params[i + 1]
                 p_j == params[j + 1]
                 chi_i == calculate_electronegativity(p_i, charge_seen(ch, delta, i))
                 chi_j == calculate_electronegativity(p_j, charge_seen(ch, delta, j))
                 chi_plus_i == calculate_electronegativity(p_i, SCALE)
                 chi_plus_j == calculate_electronegativity(p_j, SCALE)
             IN  IF chi_j > chi_i
                 THEN apply_transfer(delta, i, j,
                        transfer_dq(cd, chi_i, chi_j, chi_plus_i, chi_plus_j))
                 ELSE IF chi_i > chi_j
                 THEN apply_transfer(delta, j, i,
                        transfer_dq(cd, chi_j, chi_i, chi_plus_j, chi_plus_i))
                 ELSE delta

\* charges[i] += delta_charges[i] for every i
add_deltas(ch, delta) == [k \in 1..Len(ch) |-> ch[k] + delta[k]]

\* a plausible slip: the factor is set to the base instead of multiplied by it
next_damping_assigned(cd, d) == d

\* current_damping *= self.damping
next_damping(cd, d) == (cd * d) \div ONE

\* lines 31-38 for every atom
resolve_all(as, bs) ==
    [k \in 1..Len(as) |->
        resolve_params(as[k].atomic_number, guess_hybridization(k - 1, as, bs))]

\* lines 42-65: the delta vector of one pass over the bond list bs
RECURSIVE scan_from(_, _, _, _, _, _)
scan_from(ch, delta, params, bs, cd, k) ==
    IF k > Len(bs) THEN delta
    ELSE scan_from(ch, bond_step(ch, delta, params, bs[k], cd), params, bs, cd, k + 1)

pass_delta(ch, params, bs, cd) == scan_from(ch, Zeros(Len(ch)), params, bs, cd, 1)

\* lines 41-71: the remaining passes
RECURSIVE run_passes(_, _, _, _, _, _)
run_passes(ch, params, bs, cd, d, left) ==
    IF left = 0 THEN ch
    ELSE run_passes(add_deltas(ch, pass_delta(ch, params, bs, cd)),
                    params, bs, next_damping(cd, d), d, left - 1)

\* compute_charges as a function of its arguments
compute_charges(as, bs, its, d) ==
    run_passes([k \in 1..Len(as) |-> as[k].formal_charge],
               resolve_all(as, bs), bs, ONE, d, its)

----------------------------------------------------------------------------
(* lib.rs: the molecules of the test suite, under GasteigerSolver::default() *)

DefaultIterations == 6

DefaultDamping == ONE \div 2

Atom(z, fc) == [atomic_number |-> z, formal_charge |-> fc]

Methane == [atoms |-> <<Atom(6, 0), Atom(1, 0), Atom(1, 0), Atom(1, 0), Atom(1, 0)>>,
            bonds |-> <<<<0, 1>>, <<0, 2>>, <<0, 3>>, <<0, 4>>>>]

Water == [atoms |-> <<Atom(8, 0), Atom(1, 0), Atom(1, 0)>>,
          bonds |-> <<<<0, 1>>, <<0, 2>>>>]

Thioformaldehyde == [atoms |-> <<Atom(16, 0), Atom(6, 0)>>,
                     bonds |-> <<<<0, 1>>>>]

DimethylSulfide == [atoms |-> <<Atom(16, 0), Atom(6, 0), Atom(6, 0)>>,
                    bonds |-> <<<<0, 1>>, <<0, 2>>>>]

UnknownElement == [atoms |-> <<Atom(6, 0), Atom(1, 0), Atom(46, 0)>>,
                   bonds |-> <<<<0, 1>>, <<0, 2>>>>]

MultiMolecule ==
    [atoms |-> <<Atom(6, 0), Atom(1, 0), Atom(1, 0), Atom(1, 0), Atom(1, 0),
                 Atom(8, 0), Atom(1, 0), Atom(1, 0)>>,
     bonds |-> <<<<0, 1>>, <<0, 2>>, <<0, 3>>, <<0, 4>>, <<5, 6>>, <<5, 7>>>>]

Ammonium == [atoms |-> <<Atom(7, SCALE), Atom(1, 0), Atom(1, 0), Atom(1, 0), Atom(1, 0)>>,
             bonds |-> <<<<0, 1>>, <<0, 2>>, <<0, 3>>, <<0, 4>>>>]

Acetylene == [atoms |-> <<Atom(6, 0), Atom(6, 0), Atom(1, 0), Atom(1, 0)>>,
              bonds |-> <<<<0, 1>>, <<0, 2>>, <<1, 3>>>>]

Acetonitrile ==
    [atoms |-> <<Atom(6, 0), Atom(6, 0), Atom(7, 0), Atom(1, 0), Atom(1, 0), Atom(1, 0)>>,
     bonds |-> <<<<0, 1>>, <<1, 2>>, <<0, 3>>, <<0, 4>>, <<0, 5>>>>]

Ethene ==
    [atoms |-> <<Atom(6, 0), Atom(6, 0), Atom(1, 0), Atom(1, 0), Atom(1, 0), Atom(1, 0)>>,
     bonds |-> <<<<0, 1>>, <<0, 2>>, <<0, 3>>, <<1, 4>>, <<1, 5>>>>]

TestMolecules == {Methane, Water, Thioformaldehyde, DimethylSulfide, UnknownElement,
                  MultiMolecule, Ammonium, Acetylene, Acetonitrile, Ethene}

----------------------------------------------------------------------------
(* Bounds of the explored inputs *)

\* atoms plus bonds of an enumerated input
MaxSize == 4

\* passes of an enumerated solver
MaxIterations == 2

\* bonds of the centre of a neutral star to its hydrogens
MaxDegree == 4

\* bonds of the centre of a charged star to its hydrogens
MaxIonDegree == 3

\* elements of the table, and three that are not in it
Elements == {1, 6, 7, 8, 9, 15, 16, 17, 35, 53, 0, 5, 46}

SmallElements == {1, 8, 46}

FormalCharges == {0, SCALE}

AtomKinds == {Atom(z, fc) : z \in SmallElements, fc \in FormalCharges}

\* damping bases 0.5 and 0.25
Dampings == {ONE \div 2, ONE \div 4}

\* centre 0 bonded to hydrogens 1..d, then s self-loops on the centre, then
\* x bonds from the centre to the index n_atoms, which is out of range
Star(z, fc, d, s, x) ==
    [atoms |-> [k \in 1..(d + 1) |-> IF k = 1 THEN Atom(z, fc) ELSE Atom(1, 0)],
     bonds |-> [k \in 1..(d + s + x) |->
                    IF k <= d THEN <<0, k>>
                    ELSE IF k <= d + s THEN <<0, 0>>
                    ELSE <<0, d + 1>>]]

\* the molecules of the test suite under the default solver
InitTest ==
    \E m \in TestMolecules :
        /\ atoms = m.atoms /\ bonds = m.bonds
        /\ iterations = DefaultIterations /\ damping = DefaultDamping

\* stars around every element
InitStar ==
    \E z \in Elements, fc \in FormalCharges, s \in 0..1, x \in 0..1 :
        \E d \in 0..(IF fc = 0 THEN MaxDegree ELSE MaxIonDegree) :
            /\ atoms = Star(z, fc, d, s, x).atoms
            /\ bonds = Star(z, fc, d, s, x).bonds
            /\ iterations \in (0..MaxIterations) \cup {DefaultIterations}
            /\ damping \in Dampings

\* every atom list and bond list up to MaxSize; a bond index may be n_atoms,
\* which is out of range
InitEnumerated ==
    \E n \in 0..MaxSize :
        \E m \in 0..(MaxSize - n) :
            /\ atoms \in [1..n -> AtomKinds]
            /\ bonds \in [1..m -> (0..n) \X (0..n)]
            /\ iterations = MaxIterations /\ damping = DefaultDamping

Init ==
    /\ InitTest \/ InitStar \/ InitEnumerated
    /\ charges = <<>>
    /\ hybrids = <<>>
    /\ neighbor_counts = <<>>
    /\ atom_params = <<>>
    /\ current_damping = ONE
    /\ delta_charges = <<>>
    /\ pass = 0
    /\ bond_idx = 0
    /\ pc = "seed"

----------------------------------------------------------------------------
(* compute_charges, step by step *)

\* lines 24-29: charges[i] = atom.formal_charge()
Seed ==
    /\ pc = "seed"
    /\ charges' = [k \in 1..Len(atoms) |-> atoms[k].formal_charge]
    /\ pc' = "resolve"
    /\ UNCHANGED <<inputs, hybrids, neighbor_counts, atom_params, current_damping,
                   delta_charges, pass, bond_idx>>

\* lines 31-40: atom_params for every atom, then current_damping = 1.0
Resolve ==
    /\ pc = "resolve"
    /\ neighbor_counts' = [k \in 1..Len(atoms) |-> neighbor_count(k - 1, bonds)]
    /\ hybrids' = [k \in 1..Len(atoms) |-> guess_hybridization(k - 1, atoms, bonds)]
    /\ atom_params' = resolve_all(atoms, bonds)
    /\ current_damping' = ONE
    /\ pc' = "loop"
    /\ UNCHANGED <<inputs, charges, delta_charges, pass, bond_idx>>

\* lines 41-42: enter a pass, delta_charges = vec![0.0; n_atoms]
BeginPass ==
    /\ pc = "loop"
    /\ pass < iterations
    /\ delta_charges' = Zeros(Len(atoms))
    /\ bond_idx' = 0
    /\ pc' = "scan"
    /\ UNCHANGED <<inputs, charges, hybrids, neighbor_counts, atom_params,
                   current_damping, pass>>

\* lines 44-65: one bond of `for bond in bonds`
ScanBond ==
    /\ pc = "scan"
    /\ bond_idx < Len(bonds)
    /\ delta_charges' = bond_step(charges, delta_charges, atom_params,
                                  bonds[bond_idx + 1], current_damping)
    /\ bond_idx' = bond_idx + 1
    /\ UNCHANGED <<inputs, charges, hybrids, neighbor_counts, atom_params,
                   current_damping, pass, pc>>

\* lines 67-70: add the deltas, damp, next pass
EndPass ==
    /\ pc = "scan"
    /\ bond_idx = Len(bonds)
    /\ charges' = add_deltas(charges, delta_charges)
    /\ current_damping' = next_damping(current_damping, damping)
    /\ pass' = pass + 1
    /\ pc' = "loop"
    /\ UNCHANGED <<inputs, hybrids, neighbor_counts, atom_params, delta_charges,
                   bond_idx>>

\* line 73: return charges
Return ==
    /\ pc = "loop"
    /\ pass = iterations
    /\ pc' = "done"
    /\ UNCHANGED <<inputs, charges, hybrids, neighbor_counts, atom_params,
                   current_damping, delta_charges, pass, bond_idx>>

Next == Seed \/ Resolve \/ BeginPass \/ ScanBond \/ EndPass \/ Return

Spec == Init /\ [][Next]_vars

TypeOK ==
    /\ pc \in {"seed", "resolve", "loop", "scan", "done"}
    /\ pass \in 0..iterations
    /\ bond_idx \in 0..Len(bonds)
    /\ current_damping \in 0..ONE


\* the step machine and the function rendering of compute_charges agree
StepsAgreeWithFunction ==
    pc = "done" => charges = compute_charges(atoms, bonds, iterations, damping)

----------------------------------------------------------------------------
(* Properties *)

RECURSIVE SumSeq(_)
SumSeq(s) == IF s = <<>> THEN 0 ELSE Head(s) + SumSeq(Tail(s))

RECURSIVE SumOver(_, _)
SumOver(f, S) ==
    IF S = {} THEN 0
    ELSE LET x == CHOOSE y \in S : TRUE IN f[x] + SumOver(f, S \ {x})

FormalCharge == [k \in 1..Len(atoms) |-> atoms[k].formal_charge]

N == Len(atoms)

InRange(b) == b[1] < N /\ b[2] < N

\* some pass has moved charge
ChargeMoved == \E k \in 1..N : charges[k] # FormalCharge[k]

\* C1: once seeded, and after every pass up to the returned vector, the sum
\* of the charge vector equals the sum of the input formal charges.
C1_TotalChargeConserved ==
    pc # "seed" => SumSeq(charges) = SumSeq(FormalCharge)

\* C1 witness: a returned vector of an ion in which charge has moved
C1_Witness ==
    /\ pc = "done"
    /\ SumSeq(FormalCharge) # 0
    /\ ChargeMoved
    /\ SumSeq(charges) = SumSeq(FormalCharge)

\* no row of the table for this element at any hybridization
NoEntry(z) == \A h \in Hybridization : ~get_params(z, h).some

\* C2: an atom whose element has no parameter entry at any fallback level
\* keeps exactly its seeded formal charge after every pass and on return,
\* whatever its bonds and neighbours.
C2_UnparameterizedAtomInert ==
    pc # "seed" =>
        \A k \in 1..N :
            NoEntry(atoms[k].atomic_number) => charges[k] = FormalCharge[k]

\* C2 witness: returned; an unparameterized atom is bonded to an atom whose
\* charge has moved
C2_Witness ==
    /\ pc = "done"
    /\ \E m \in 1..Len(bonds) :
         /\ InRange(bonds[m])
         /\ NoEntry(atoms[bonds[m][2] + 1].atomic_number)
         /\ charges[bonds[m][1] + 1] # FormalCharge[bonds[m][1] + 1]
         /\ charges[bonds[m][2] + 1] = FormalCharge[bonds[m][2] + 1]

\* a set of atom positions that no bond leaves
Closed(G) ==
    \A m \in 1..Len(bonds) :
        InRange(bonds[m]) => ((bonds[m][1] + 1 \in G) <=> (bonds[m][2] + 1 \in G))

\* C3: every group of atoms that no bond joins to the other atoms keeps its
\* own subtotal: between passes and on return the sum of its charges equals
\* the sum of its formal charges.
C3_ComponentsConserveSubtotal ==
    pc \in {"loop", "done"} =>
        \A G \in SUBSET (1..N) :
            Closed(G) => SumOver(charges, G) = SumOver(FormalCharge, G)

\* C3 witness: returned; charge has moved inside a group and outside it
C3_Witness ==
    /\ pc = "done"
    /\ \E G \in SUBSET (1..N) :
         /\ Closed(G)
         /\ \E k \in G : charges[k] # FormalCharge[k]
         /\ \E k \in (1..N) \ G : charges[k] # FormalCharge[k]
         /\ SumOver(charges, G) = SumOver(FormalCharge, G)

RemoveAt(s, m) == [k \in 1..(Len(s) - 1) |-> IF k < m THEN s[k] ELSE s[k + 1]]

\* C4: a bond with an out-of-range endpoint is inert: the returned vector is
\* the one returned for the same atoms and bonds with that bond removed.
C4_OutOfRangeBondInert ==
    pc = "done" =>
        \A m \in 1..Len(bonds) :
            ~InRange(bonds[m]) =>
                charges = compute_charges(atoms, RemoveAt(bonds, m), iterations, damping)

\* the part of C4 the code keeps: the bond adds nothing to the delta vector
C4_OutOfRangeBondSkippedInPass ==
    [][(pc = "scan" /\ bond_idx < Len(bonds) /\ ~InRange(bonds[bond_idx + 1]))
            => delta_charges' = delta_charges]_vars

SelfLoops(i) == {m \in 1..Len(bonds) : bonds[m][1] = i /\ bonds[m][2] = i}

ProperIncident(i) ==
    {m \in 1..Len(bonds) : (bonds[m][1] = i) # (bonds[m][2] = i)}

Resolved == pc \notin {"seed", "resolve"}

\* C5 as stated: a self-loop adds two to the bond-degree count of its atom.
C5_SelfLoopCountsTwice ==
    Resolved =>
        \A k \in 1..N :
            neighbor_counts[k] =
                Cardinality(ProperIncident(k - 1)) + 2 * Cardinality(SelfLoops(k - 1))

\* C5 amended: a self-loop adds one to the bond-degree count of its atom,
\* as every other incident bond does.
C5_SelfLoopCountsOnce ==
    Resolved =>
        \A k \in 1..N :
            neighbor_counts[k] =
                Cardinality(ProperIncident(k - 1)) + Cardinality(SelfLoops(k - 1))

\* C5 witness: resolved; an atom carries a self-loop and another bond
C5_Witness ==
    /\ Resolved
    /\ \E k \in 1..N :
         /\ SelfLoops(k - 1) # {}
         /\ ProperIncident(k - 1) # {}
         /\ neighbor_counts[k] =
                Cardinality(ProperIncident(k - 1)) + Cardinality(SelfLoops(k - 1))

\* the number of bonds incident to atom i
Degree(i) == Cardinality(ProperIncident(i) \cup SelfLoops(i))

\* the degree-band table
Band(z, d) ==
    IF z = 6 THEN (IF d >= 4 THEN "Sp3" ELSE IF d = 3 THEN "Sp2" ELSE "Sp")
    ELSE IF z = 7 THEN (IF d >= 3 THEN "Sp3" ELSE IF d = 2 THEN "Sp2" ELSE "Sp")
    ELSE IF z \in {8, 16} THEN (IF d >= 2 THEN "Sp3" ELSE "Sp2")
    ELSE IF z = 15 THEN "Sp3"
    ELSE "Default"

\* C6: for every atom, the estimated hybridization is the class the
\* degree-band table gives for its element and its bond degree, and it is
\* always one of the four classes.
C6_HybridizationBands ==
    Resolved =>
        \A k \in 1..N :
            /\ hybrids[k] \in Hybridization
            /\ hybrids[k] = Band(atoms[k].atomic_number, Degree(k - 1))

\* C6 witness: resolved; a carbon of degree 3 (Sp2) and a hydrogen (Default)
C6_Witness ==
    /\ Resolved
    /\ \E k \in 1..N :
         atoms[k].atomic_number = 6 /\ Degree(k - 1) = 3 /\ hybrids[k] = "Sp2"
    /\ \E k \in 1..N : atoms[k].atomic_number = 1 /\ hybrids[k] = "Default"

DefaultSolver == iterations = DefaultIterations /\ damping = DefaultDamping

IsMolecule(m) == atoms = m.atoms /\ bonds = m.bonds

\* C7: under the default solver, the centre of methane, of water and of
\* thioformaldehyde (one S-C bond) ends with a strictly negative charge.
C7_CentralAtomNegative ==
    (/\ pc = "done"
     /\ DefaultSolver
     /\ IsMolecule(Methane) \/ IsMolecule(Water) \/ IsMolecule(Thioformaldehyde))
        => charges[1] < 0

\* C7 witness: thioformaldehyde returned, its sulfur negative
C7_Witness ==
    /\ pc = "done"
    /\ DefaultSolver
    /\ IsMolecule(Thioformaldehyde)
    /\ charges[1] < 0

Tabulated == {1, 6, 7, 8, 9, 15, 16, 17, 35, 53}

\* the first tabulated entry of the chain estimate, Sp3, Default
FirstOfChain(z, h) ==
    IF get_params(z, h).some THEN get_params(z, h)
    ELSE IF get_params(z, "Sp3").some THEN get_params(z, "Sp3")
    ELSE IF get_params(z, "Default").some THEN get_params(z, "Default")
    ELSE None

ParamsAsChain ==
    Resolved =>
        \A k \in 1..N :
            /\ atom_params[k] = FirstOfChain(atoms[k].atomic_number, hybrids[k])
            /\ ~atom_params[k].some <=> atoms[k].atomic_number \notin Tabulated

\* C8: each atom's parameters are the first tabulated entry of the chain
\* lookup(Z, estimate), lookup(Z, Sp3), lookup(Z, Default), None exactly for
\* the atomic numbers outside the table, and they are fixed before the
\* first pass and never change afterwards.
C8_ParamsResolvedOnce ==
    /\ []ParamsAsChain
    /\ [][(pc = "resolve" => pass = 0 /\ pc' = "loop")
          /\ (Resolved => atom_params' = atom_params)]_vars

\* C8 witness: in a pass, with an oxygen resolved to its Sp2 row beside an
\* element outside the table resolved to None
C8_Witness ==
    /\ pc = "scan"
    /\ \E k \in 1..N :
         /\ atoms[k].atomic_number = 8
         /\ hybrids[k] = "Sp2"
         /\ atom_params[k] = Some(1707, 1379, 47)
    /\ \E k \in 1..N :
         atoms[k].atomic_number \notin Tabulated /\ ~atom_params[k].some

\* electronegativity of atom i (0-based) at its charge in the vector ch
Chi(ch, i) == calculate_electronegativity(atom_params[i + 1], ch[i + 1])

\* electronegativity of atom i at charge +1.0
ChiPlus(i) == calculate_electronegativity(atom_params[i + 1], SCALE)

\* q is x / y rounded down, y > 0
IsQuotient(q, x, y) == q * y <= x /\ x < (q + 1) * y

\* dq is cd * diff / chi_plus in the units of the model
IsDq(dq, cd, diff, chi_plus) ==
    \E t \in {(cd * diff) \div ONE} :
        /\ IsQuotient(t, cd * diff, ONE)
        /\ IsQuotient(dq, t * SCALE, chi_plus)

\* the bond about to be scanned
ThisBond == bonds[bond_idx + 1]

Scanning == pc = "scan" /\ bond_idx < Len(bonds)

Participating(b) ==
    InRange(b) /\ atom_params[b[1] + 1].some /\ atom_params[b[2] + 1].some

\* the effect the claim gives for a bond whose endpoints are lo (lower
\* electronegativity) and hi
DonorGains(lo, hi) ==
    \E dq \in {delta_charges'[lo + 1] - delta_charges[lo + 1]} :
        /\ IsDq(dq, current_damping, Chi(charges, hi) - Chi(charges, lo), ChiPlus(lo))
        /\ delta_charges' =
              [k \in 1..N |->
                  delta_charges[k] + (IF k = lo + 1 THEN dq ELSE 0)
                                   - (IF k = hi + 1 THEN dq ELSE 0)]

\* C9: scanning a bond whose endpoints are in range and parameterized adds
\* dq = damping_factor * (chi_high - chi_low) / chi_plus(donor) to the delta
\* of the endpoint of lower electronegativity at its current charge and takes
\* the same dq from the other; with equal electronegativities (a self-bond
\* in particular) the delta vector is left as it was.
C9_LowerElectronegativityDonates ==
    [][(Scanning /\ Participating(ThisBond)) =>
         LET i == ThisBond[1]
             j == ThisBond[2]
         IN  /\ Chi(charges, i) < Chi(charges, j) => DonorGains(i, j)
             /\ Chi(charges, j) < Chi(charges, i) => DonorGains(j, i)
             /\ Chi(charges, i) = Chi(charges, j) => delta_charges' = delta_charges
             /\ i = j => delta_charges' = delta_charges]_vars

\* C9 witness: all bonds of a pass scanned, among them a self-bond on a
\* parameterized atom, and charge is on its way from a donor
C9_Witness ==
    /\ pc = "scan"
    /\ bond_idx = Len(bonds)
    /\ \E m \in 1..Len(bonds) :
         bonds[m][1] = bonds[m][2] /\ Participating(bonds[m])
    /\ \E k \in 1..N : delta_charges[k] > 0
    /\ \E k \in 1..N : delta_charges[k] < 0

\* lists longer than this are compared under exchanges of two bonds only
MaxPermLen == 4

Injective(f) == \A x, y \in DOMAIN f : x # y => f[x] # f[y]

\* the orders in which a list of n bonds is compared
Reorderings ==
    [n \in 0..12 |->
        IF n <= MaxPermLen
        THEN {f \in [1..n -> 1..n] : Injective(f)}
        ELSE {[k \in 1..n |-> IF k = x THEN y ELSE IF k = y THEN x ELSE k] :
                x \in 1..n, y \in 1..n}]

Reordered(bs, f) == [k \in 1..Len(bs) |-> bs[f[k]]]

\* the bonds scanned so far in the running pass
Scanned == SubSeq(bonds, 1, bond_idx)

\* C10: during a pass the charge vector is not written: the deltas of the
\* bonds scanned so far are those computed from the vector as it stood when
\* the pass began, they are added only when every bond has been scanned, and
\* the vector after the pass is the same for every order of the bond list.
C10_PassSeesSnapshot ==
    /\ [](pc = "scan" =>
            delta_charges = pass_delta(charges, atom_params, Scanned, current_damping))
    /\ [][/\ pc = "scan" /\ pc' = "scan" => charges' = charges
          /\ (pc # "seed" /\ charges' # charges) =>
                pc = "scan" /\ bond_idx = Len(bonds)
          /\ (pc = "scan" /\ pc' = "loop") =>
                \A f \in Reorderings[Len(bonds)] :
                    charges' = add_deltas(charges,
                                  pass_delta(charges, atom_params,
                                             Reordered(bonds, f), current_damping))]_vars

\* C10 witness: a pass is over in which two bonds share an atom and moved
\* different amounts of charge
C10_Witness ==
    /\ pc = "loop"
    /\ pass = 1
    /\ Len(bonds) >= 2
    /\ \E k \in 1..N : \E a, b \in ProperIncident(k - 1) :
         /\ a # b
         /\ Participating(bonds[a]) /\ Participating(bonds[b])
         /\ \E x, y \in 1..N : x # y /\ x # k /\ y # k /\ charges[x] # charges[y]
                                /\ charges[x] # FormalCharge[x]
                                /\ charges[y] # FormalCharge[y]

RECURSIVE Pow(_, _)
Pow(b, k) == IF k = 0 THEN 1 ELSE b * Pow(b, k - 1)

\* f is damping^k in units of 1/ONE, for a base 1/r with r dividing ONE
IsDampingPower(f, k) ==
    \E r \in {ONE \div damping} : r * damping = ONE /\ f * Pow(r, k) = ONE

\* C11: the running factor is 1.0 when the first pass starts and is
\* damping^(k-1) throughout pass k; the function goes on until `iterations`
\* passes are complete and returns only then; with iterations = 0 no pass
\* runs and the returned vector is the seeded formal charges.
C11_IterationsAndDamping ==
    /\ Resolved => pass <= iterations /\ IsDampingPower(current_damping, pass)
    /\ pc = "scan" => pass < iterations
    /\ pc = "done" => pass = iterations
    /\ pc # "done" => ENABLED Next
    /\ (pc = "done" /\ iterations = 0) =>
            charges = FormalCharge /\ delta_charges = <<>>

\* C11 witness: returned after the six passes of the default count with
\* base 0.25, the factor being 0.25^6, and charge has moved
C11_Witness ==
    /\ pc = "done"
    /\ iterations = DefaultIterations
    /\ pass = DefaultIterations
    /\ damping = ONE \div 4
    /\ current_damping = 1
    /\ ChargeMoved

\* returned without a pass: the seeded charges of an ion with bonds
C11_NoPassReached ==
    /\ pc = "done"
    /\ iterations = 0
    /\ Len(bonds) > 0
    /\ \E k \in 1..N : charges[k] # 0

====
